---- MODULE Spec2Model ----
(***************************************************************************)
(* Model of the TidyBot Army Timeline carousel (src/script.js): the entry  *)
(* store, the virtual-scrolling renderer, the navigation controller with   *)
(* its transition timers and animation-frame callbacks, the input          *)
(* adapters and the exported TidyBotTimeline API.                          *)
(*                                                                         *)
(* The JavaScript functions are operators from a state record to a state   *)
(* record.  The record carries two transient fields: threw (an exception   *)
(* was raised and is propagating) and ret (the last return value).         *)
(* Array indices are the zero-based indices of the source; the sequences   *)
(* that hold the arrays are one-based, so activityLog[i] of the source is  *)
(* s.activityLog[i + 1] here.                                              *)
(*                                                                         *)
(* Not modelled: the header text animation (animateText), the robot        *)
(* positioning (an empty function), the mouse tracking and the honeycomb   *)
(* background, none of which the carousel state depends on.                *)
(***************************************************************************)
EXTENDS Integers, Sequences, FiniteSets, TLC

\* ------------------------------------------------------------------ bounds
MaxEntries == 5          \* the store holds at most this many entries
MaxTimers == 2           \* pending transition-completion timers
MaxBuffer == 4           \* buffer sizes tried on the window computation
MaxRenderEntries == 3    \* store sizes tried on one render alone

\* --------------------------------------------------------- program constants
CARD_BUFFER == 3
gap == 24
DefaultCardWidth == 500
SwipeThreshold == 50

typeConfig ==
    [setup    |-> [label |-> "Setup",    color |-> "#9d4edd"],
     feature  |-> [label |-> "Feature",  color |-> "#39ff14"],
     fix      |-> [label |-> "Bug Fix",  color |-> "#ff3366"],
     refactor |-> [label |-> "Refactor", color |-> "#ff6b00"],
     test     |-> [label |-> "Testing",  color |-> "#00d4ff"],
     docs     |-> [label |-> "Docs",     color |-> "#6b6b7b"],
     deploy   |-> [label |-> "Deploy",   color |-> "#ff6b00"]]

\* ------------------------------------------------------------------ inputs
\* The type tags the backing resource or an addEntry caller may supply.
EntryTypes == {"feature", "unknown"}
\* The widths the layout may give a card (offsetWidth).
Widths == {300, 500}
\* Screen coordinates of a touch.
TouchXs == {0, 100}
\* deltaY of a wheel event.
WheelDeltas == {-1, 0, 1}
\* Keys of a keydown event.
Keys == {"ArrowLeft", "ArrowRight", "Enter"}

Max(a, b) == IF a >= b THEN a ELSE b
Min(a, b) == IF a <= b THEN a ELSE b
Abs(a) == IF a >= 0 THEN a ELSE -a

\* The files tried as logs/entries.json, as the sequence of their type tags:
\* the well-formed files of every length.  Records of an unregistered type
\* enter the store through addEntry.
Files == {[k \in 1..n |-> "feature"] : n \in 0..MaxEntries}

\* What a fetch of logs/entries.json can deliver: a failure (network or parse
\* error), or an array of records of which only the type tag is modelled.
Responses ==
    {[ok |-> FALSE, entries |-> <<>>]} \cup {[ok |-> TRUE, entries |-> t] : t \in Files}

\* ------------------------------------------------------------------- state
VARIABLES
    activityLog,     \* sequence of [ref, id, type]; ref is the object identity
    currentIndex,
    isAnimating,
    renderedRange,   \* [start, end]
    timelineNodes,   \* materialized markers: sequence of [index, active, label]
    cardsRow,        \* materialized cards: sequence of [index, active, prev, next, label]
    transform,       \* eventsSlider translateX offset, in px (leftwards)
    transition,      \* eventsSlider style.transition: "" or "none"
    timers,          \* pending transition-completion timers: sequence of "A" / "B"
    rafPending,      \* the Case B animation-frame callback is queued
    resizeTimer,     \* the debounced resize callback is pending
    cardWidth,       \* offsetWidth the layout currently gives a card
    listening,       \* init() reached bindEvents and the resize listener
    startup,         \* "loading" until the DOMContentLoaded load resolves
    lastEvent,       \* the event last dispatched: [op, busy, threw]
    calcIn,          \* inputs of the window computation (RangeSpec only)
    calcOut          \* its result (RangeSpec only)

progVars ==
    <<activityLog, currentIndex, isAnimating, renderedRange, timelineNodes,
      cardsRow, transform, transition, timers, rafPending, listening>>

envVars == <<resizeTimer, cardWidth, startup>>

vars == <<progVars, envVars, lastEvent, calcIn, calcOut>>

\* The state as the record the function operators work on.
Cur ==
    [activityLog    |-> activityLog,
     currentIndex   |-> currentIndex,
     isAnimating    |-> isAnimating,
     renderedRange  |-> renderedRange,
     timelineNodes  |-> timelineNodes,
     cardsRow       |-> cardsRow,
     transform      |-> transform,
     transition     |-> transition,
     timers         |-> timers,
     rafPending     |-> rafPending,
     listening      |-> listening,
     cardWidth      |-> cardWidth,
     threw          |-> FALSE,
     ret            |-> FALSE]

\* The next state's program variables are the fields of s.
Commit(s) ==
    /\ activityLog' = s.activityLog
    /\ currentIndex' = s.currentIndex
    /\ isAnimating' = s.isAnimating
    /\ renderedRange' = s.renderedRange
    /\ timelineNodes' = s.timelineNodes
    /\ cardsRow' = s.cardsRow
    /\ transform' = s.transform
    /\ transition' = s.transition
    /\ timers' = s.timers
    /\ rafPending' = s.rafPending
    /\ listening' = s.listening

\* The event just dispatched: the operation it invoked, whether a transition
\* was in flight when it arrived, and whether its handler raised.
Event(op, s) ==
    lastEvent' = [op |-> op, busy |-> isAnimating, threw |-> s.threw]

\* ------------------------------------------------------------- entry store
\* loadActivityLog: every record of the response becomes a fresh object with
\* id = index + 1; any failure leaves the empty array.
loadActivityLog(s, resp) ==
    IF resp.ok
    THEN [s EXCEPT !.activityLog =
            [k \in 1..Len(resp.entries) |->
                [ref |-> k, id |-> k, type |-> resp.entries[k]]]]
    ELSE [s EXCEPT !.activityLog = <<>>]

\* ------------------------------------------------------ window calculation
\* Mutant: the upper clamp is the entry count instead of the last index.
computeRange_EndAtCount(index, buffer, entryCount) ==
    [start |-> Max(0, index - buffer),
     end   |-> Min(entryCount, index + buffer)]

computeRange(index, buffer, entryCount) ==
    [start |-> Max(0, index - buffer),
     end   |-> Min(entryCount - 1, index + buffer)]

\* ---------------------------------------------------------------- renderer
\* typeConfig is an object literal: typeConfig[type] finds its seven own keys
\* and, through the prototype chain, the members of Object.prototype, which are
\* objects without a label or a color.  Any other type gives undefined.
ObjectPrototypeKeys ==
    {"constructor", "toString", "valueOf", "hasOwnProperty", "__proto__"}

\* typeConfig[type] where it is not undefined; a missing label or color is
\* written into the markup as the text "undefined".
typeConfigLookup(type) ==
    IF type \in DOMAIN typeConfig THEN typeConfig[type]
    ELSE [label |-> "undefined", color |-> "undefined"]

\* typeConfig[entry.type].color raises a TypeError when typeConfig[entry.type]
\* is undefined.
Renderable(entry) == entry.type \in (DOMAIN typeConfig \cup ObjectPrototypeKeys)

createNodeHTML(entry, index, isActive) ==
    [index |-> index, active |-> isActive,
     label |-> typeConfigLookup(entry.type).label]

createCardHTML(entry, index, isActive, isPrev, isNext) ==
    [index |-> index, active |-> isActive, prev |-> isPrev, next |-> isNext,
     label |-> typeConfigLookup(entry.type).label]

\* Mutant: the flags of the previous position are not removed first.
updateCardActiveStates_KeepsOldFlags(s) ==
    [s EXCEPT
        !.cardsRow = [k \in DOMAIN s.cardsRow |->
            LET card == s.cardsRow[k] IN
            [card EXCEPT
                !.active = (@ \/ card.index = s.currentIndex),
                !.prev = (@ \/ (card.index # s.currentIndex
                                /\ card.index = s.currentIndex - 1)),
                !.next = (@ \/ (card.index # s.currentIndex
                                /\ card.index # s.currentIndex - 1
                                /\ card.index = s.currentIndex + 1))]],
        !.timelineNodes = [k \in DOMAIN s.timelineNodes |->
            LET node == s.timelineNodes[k] IN
            [node EXCEPT !.active = (node.index = s.currentIndex)]]]

updateCardActiveStates(s) ==
    [s EXCEPT
        !.cardsRow = [k \in DOMAIN s.cardsRow |->
            LET card == s.cardsRow[k] IN
            [card EXCEPT
                !.active = (card.index = s.currentIndex),
                !.prev = (card.index # s.currentIndex
                          /\ card.index = s.currentIndex - 1),
                !.next = (card.index # s.currentIndex
                          /\ card.index # s.currentIndex - 1
                          /\ card.index = s.currentIndex + 1)]],
        !.timelineNodes = [k \in DOMAIN s.timelineNodes |->
            LET node == s.timelineNodes[k] IN
            [node EXCEPT !.active = (node.index = s.currentIndex)]]]

\* Mutant: the unchanged-range shortcut is missing, every call re-renders.
updateRenderedCards_AlwaysRender(s, forceRerender) ==
    LET r == computeRange(s.currentIndex, CARD_BUFFER, Len(s.activityLog))
        start == r.start
        end == r.end
        s1 == [s EXCEPT !.renderedRange = [start |-> start, end |-> end]]
    IN  IF \E i \in start..end : ~Renderable(s.activityLog[i + 1])
        THEN [s1 EXCEPT !.threw = TRUE]
        ELSE [s1 EXCEPT
                !.timelineNodes = [k \in 1..(end - start + 1) |->
                    LET i == start + k - 1 IN
                    createNodeHTML(s.activityLog[i + 1], i, i = s.currentIndex)],
                !.cardsRow = [k \in 1..(end - start + 1) |->
                    LET i == start + k - 1 IN
                    createCardHTML(s.activityLog[i + 1], i,
                                   i = s.currentIndex,
                                   i = s.currentIndex - 1,
                                   i = s.currentIndex + 1)],
                !.ret = TRUE]

updateRenderedCards(s, forceRerender) ==
    LET r == computeRange(s.currentIndex, CARD_BUFFER, Len(s.activityLog))
        start == r.start
        end == r.end
    IN  IF ~forceRerender /\ start = s.renderedRange.start
                          /\ end = s.renderedRange.end
        THEN [updateCardActiveStates(s) EXCEPT !.ret = FALSE]
        ELSE LET s1 == [s EXCEPT !.renderedRange = [start |-> start, end |-> end]]
             IN  IF \E i \in start..end : ~Renderable(s.activityLog[i + 1])
                 THEN [s1 EXCEPT !.threw = TRUE]
                 ELSE [s1 EXCEPT
                        !.timelineNodes = [k \in 1..(end - start + 1) |->
                            LET i == start + k - 1 IN
                            createNodeHTML(s.activityLog[i + 1], i,
                                           i = s.currentIndex)],
                        !.cardsRow = [k \in 1..(end - start + 1) |->
                            LET i == start + k - 1 IN
                            createCardHTML(s.activityLog[i + 1], i,
                                           i = s.currentIndex,
                                           i = s.currentIndex - 1,
                                           i = s.currentIndex + 1)],
                        !.ret = TRUE]

\* updateUI reads activityLog[currentIndex].type: a TypeError when there is no
\* such entry or its type is unregistered.  What it writes (the header texts,
\* the counter, the disabled state of the two buttons) is display state that
\* nothing reads back; a click on a disabled button is a click that does not
\* happen, and an arrow key reaches the same handler in every state.
updateUI(s) ==
    IF s.currentIndex < 0 \/ s.currentIndex >= Len(s.activityLog)
       \/ ~Renderable(s.activityLog[s.currentIndex + 1])
    THEN [s EXCEPT !.threw = TRUE]
    ELSE s

\* Position in the strip of the last card whose data-index is currentIndex,
\* zero-based; -1 when there is none.
ActiveCardIndex(s) ==
    LET hits == {k \in DOMAIN s.cardsRow : s.cardsRow[k].index = s.currentIndex}
    IN  IF hits = {} THEN -1
        ELSE (CHOOSE k \in hits : \A j \in hits : j <= k) - 1

updateSliderPosition(s, animate) ==
    IF Len(s.cardsRow) = 0 THEN s
    ELSE IF ActiveCardIndex(s) = -1 THEN s
    ELSE LET offset == ActiveCardIndex(s) * (s.cardWidth + gap)
         IN  IF ~animate
             THEN [s EXCEPT !.transform = offset, !.transition = ""]
             ELSE [s EXCEPT !.transform = offset]

\* -------------------------------------------------------------- navigation
\* Mutant: Case A brings the window up to date inside the call.
transitionCaseA_RendersNow(s) ==
    LET s1 == updateRenderedCards(s, FALSE)
        s2 == updateUI(updateSliderPosition(s1, TRUE))
    IN  IF s1.threw THEN s1
        ELSE IF s2.threw THEN s2
        ELSE [s2 EXCEPT !.timers = Append(@, "A")]

\* Case A of goToIndex: the target card exists, animate to it.
transitionCaseA(s) ==
    LET s2 == updateUI(updateSliderPosition(updateCardActiveStates(s), TRUE))
    IN  IF s2.threw THEN s2
        ELSE [s2 EXCEPT !.timers = Append(@, "A")]

\* Mutant: Case B snaps and animates without re-rendering.
transitionCaseB_NoRender(s) ==
    LET width == IF Len(s.cardsRow) > 0 /\ s.cardWidth # 0
                 THEN s.cardWidth ELSE DefaultCardWidth
    IN  [s EXCEPT !.transform = (CARD_BUFFER - 1) * (width + gap),
                  !.transition = "",
                  !.rafPending = TRUE,
                  !.timers = Append(@, "B")]

\* Case B of goToIndex: re-render centred on the target, then animate.
transitionCaseB(s) ==
    LET s2 == updateRenderedCards([s EXCEPT !.transition = "none"], TRUE)
        width == IF Len(s2.cardsRow) > 0 /\ s2.cardWidth # 0
                 THEN s2.cardWidth ELSE DefaultCardWidth
        startOffset == (CARD_BUFFER - 1) * (width + gap)
    IN  IF s2.threw THEN s2
        ELSE [s2 EXCEPT !.transform = startOffset,
                        !.transition = "",
                        !.rafPending = TRUE,
                        !.timers = Append(@, "B")]

\* goToIndex past its guard.
goToIndexAccepted(s, index) ==
    LET s1 == [s EXCEPT !.isAnimating = TRUE, !.currentIndex = index]
        isRendered == index >= s.renderedRange.start /\ index <= s.renderedRange.end
    IN  IF isRendered THEN transitionCaseA(s1) ELSE transitionCaseB(s1)

\* Mutant: the isAnimating guard is missing.
goToIndex_NoAnimatingGuard(s, index) ==
    IF index < 0 \/ index >= Len(s.activityLog) THEN s
    ELSE goToIndexAccepted(s, index)

\* Mutant: the lower bound of the index is not checked.
goToIndex_NoLowerBound(s, index) ==
    IF s.isAnimating \/ index >= Len(s.activityLog) THEN s
    ELSE goToIndexAccepted(s, index)

goToIndex(s, index) ==
    IF s.isAnimating \/ index < 0 \/ index >= Len(s.activityLog) THEN s
    ELSE goToIndexAccepted(s, index)

\* Mutant: goToPrev clamps the target to the sequence instead of returning.
goToPrev_Clamp(s) == goToIndex(s, Max(0, s.currentIndex - 1))

goToPrev(s) ==
    IF s.currentIndex > 0 THEN goToIndex(s, s.currentIndex - 1) ELSE s

goToNext(s) ==
    IF s.currentIndex < Len(s.activityLog) - 1
    THEN goToIndex(s, s.currentIndex + 1) ELSE s

\* The 750 ms callback of Case A.
timerCallbackA(s) ==
    LET s1 == updateRenderedCards(s, FALSE)
        s2 == IF s1.ret THEN updateSliderPosition(s1, FALSE) ELSE s1
    IN  IF s1.threw THEN s1
        ELSE [s2 EXCEPT !.isAnimating = FALSE]

\* The 750 ms callback of Case B.
timerCallbackB(s) == [s EXCEPT !.isAnimating = FALSE]

\* The animation-frame callback of Case B.
rafCallback(s) == updateUI(updateSliderPosition(s, TRUE))

\* ------------------------------------------------------- startup and API
init(s) ==
    LET s0 == [s EXCEPT !.currentIndex = Len(s.activityLog) - 1]
        s1 == updateRenderedCards(s0, FALSE)
        s2 == updateUI(s1)
        s3 == updateSliderPosition(s2, FALSE)
    IN  IF s1.threw THEN s1
        ELSE IF s2.threw THEN s2
        ELSE [s3 EXCEPT !.listening = TRUE]

\* The DOMContentLoaded handler, from the point where the load resolves.
domContentLoaded(s, resp) ==
    LET s1 == loadActivityLog(s, resp)
    IN  IF Len(s1.activityLog) = 0 THEN s1 ELSE init(s1)

\* addEntry(entry): entry is the object ref; its id is overwritten wherever the
\* object is referenced, then it is pushed and navigated to.
addEntry(s, ref, type) ==
    LET n == Len(s.activityLog)
        marked == [k \in 1..n |->
                    IF s.activityLog[k].ref = ref
                    THEN [s.activityLog[k] EXCEPT !.id = n + 1]
                    ELSE s.activityLog[k]]
        pushed == Append(marked, [ref |-> ref, id |-> n + 1, type |-> type])
    IN  goToIndex([s EXCEPT !.activityLog = pushed], Len(pushed) - 1)

\* Mutant: reload() does not reset currentIndex.
reload_KeepsIndex(s, resp) ==
    LET s1 == [loadActivityLog(s, resp) EXCEPT
                    !.renderedRange = [start |-> 0, end |-> 0]]
        s2 == updateRenderedCards(s1, TRUE)
        s3 == updateUI(s2)
        s4 == updateSliderPosition(s3, FALSE)
    IN  IF s2.threw THEN s2
        ELSE IF s3.threw THEN s3
        ELSE s4

\* Mutant: reload() also returns the controller to Idle.
reload_ClearsAnimating(s, resp) ==
    LET s0 == loadActivityLog(s, resp)
        s1 == [s0 EXCEPT !.currentIndex = Len(s0.activityLog) - 1,
                         !.renderedRange = [start |-> 0, end |-> 0],
                         !.isAnimating = FALSE]
        s2 == updateRenderedCards(s1, TRUE)
        s3 == updateUI(s2)
        s4 == updateSliderPosition(s3, FALSE)
    IN  IF s2.threw THEN s2
        ELSE IF s3.threw THEN s3
        ELSE s4

\* reload(), from the point where loadActivityLog resolves.
reload(s, resp) ==
    LET s0 == loadActivityLog(s, resp)
        s1 == [s0 EXCEPT !.currentIndex = Len(s0.activityLog) - 1,
                         !.renderedRange = [start |-> 0, end |-> 0]]
        s2 == updateRenderedCards(s1, TRUE)
        s3 == updateUI(s2)
        s4 == updateSliderPosition(s3, FALSE)
    IN  IF s2.threw THEN s2
        ELSE IF s3.threw THEN s3
        ELSE s4

\* ----------------------------------------------------------- initial state
InitProg ==
    /\ activityLog = <<>>
    /\ currentIndex = 0
    /\ isAnimating = FALSE
    /\ renderedRange = [start |-> 0, end |-> 0]
    /\ timelineNodes = <<>>
    /\ cardsRow = <<>>
    /\ transform = 0
    /\ transition = ""
    /\ timers = <<>>
    /\ rafPending = FALSE
    /\ listening = FALSE
    /\ resizeTimer = FALSE
    /\ cardWidth = DefaultCardWidth
    /\ startup = "loading"
    /\ lastEvent = [op |-> "script", busy |-> FALSE, threw |-> FALSE]

Init ==
    /\ InitProg
    /\ calcIn = [index |-> 0, buffer |-> CARD_BUFFER, entryCount |-> 1]
    /\ calcOut = <<>>

\* ------------------------------------------------------------------ actions
\* The model stops dispatching navigation once MaxTimers completion timers are
\* pending.
Room == Len(timers) < MaxTimers

\* The smallest object identity no entry of the store has.
FreshRef ==
    CHOOSE r \in 1..(MaxEntries + 1) :
        /\ \A k \in DOMAIN activityLog : activityLog[k].ref # r
        /\ \A q \in 1..(r - 1) : \E k \in DOMAIN activityLog : activityLog[k].ref = q

\* The startup load resolves (DOMContentLoaded handler).
StartupResolve ==
    /\ startup = "loading"
    /\ \E resp \in Responses :
        LET s == domContentLoaded(Cur, resp) IN
        /\ Commit(s)
        /\ Event("startup", s)
    /\ startup' = "done"
    /\ UNCHANGED <<resizeTimer, cardWidth, calcIn, calcOut>>

\* TidyBotTimeline.goToIndex(index)
GoToIndex ==
    /\ Room
    /\ \E index \in -1..MaxEntries :
        LET s == goToIndex(Cur, index) IN
        /\ Commit(s)
        /\ Event("goToIndex", s)
    /\ UNCHANGED <<envVars, calcIn, calcOut>>

\* TidyBotTimeline.goToFirst()
GoToFirst ==
    /\ Room
    /\ LET s == goToIndex(Cur, 0) IN
        /\ Commit(s)
        /\ Event("goToIndex", s)
    /\ UNCHANGED <<envVars, calcIn, calcOut>>

\* TidyBotTimeline.goToLast()
GoToLast ==
    /\ Room
    /\ LET s == goToIndex(Cur, Len(activityLog) - 1) IN
        /\ Commit(s)
        /\ Event("goToIndex", s)
    /\ UNCHANGED <<envVars, calcIn, calcOut>>

\* TidyBotTimeline.addEntry(entry) with an object that is not in the store.
\* At most one record of an unregistered type is in the store at a time.
AddEntryNew ==
    /\ Room
    /\ Len(activityLog) < MaxEntries
    /\ \E type \in EntryTypes :
        LET s == addEntry(Cur, FreshRef, type) IN
        /\ (~Renderable([type |-> type]) => \A k \in DOMAIN activityLog :
                                                Renderable(activityLog[k]))
        /\ Commit(s)
        /\ Event("addEntry", s)
    /\ UNCHANGED <<envVars, calcIn, calcOut>>

\* TidyBotTimeline.addEntry(TidyBotTimeline.getCurrentEntry()): the object is
\* one the store already holds.  At most one object is in the store twice.
AddEntryAlias ==
    /\ Room
    /\ Len(activityLog) < MaxEntries
    /\ \A i, j \in DOMAIN activityLog :
            activityLog[i].ref = activityLog[j].ref => i = j
    /\ \E k \in DOMAIN activityLog :
        LET s == addEntry(Cur, activityLog[k].ref, activityLog[k].type) IN
        /\ k = currentIndex + 1
        /\ Commit(s)
        /\ Event("addEntry", s)
    /\ UNCHANGED <<envVars, calcIn, calcOut>>

\* TidyBotTimeline.reload(), at the point where its fetch resolves.  The call
\* itself changes nothing, so every event between the call and this point is
\* an event before this action.  A reload() before the startup load has
\* resolved is not modelled.
Reload ==
    /\ startup = "done"
    /\ \E resp \in Responses :
        LET s == reload(Cur, resp) IN
        /\ Commit(s)
        /\ Event("reload", s)
    /\ UNCHANGED <<envVars, calcIn, calcOut>>

\* "await TidyBotTimeline.reload(); TidyBotTimeline.goToLast()": the caller's
\* continuation runs in the microtask that follows reload()'s, before any other
\* event or timer.
ReloadThenGoToLast ==
    /\ startup = "done"
    /\ Room
    /\ \E resp \in Responses :
        LET s1 == reload(Cur, resp)
            s == goToIndex([s1 EXCEPT !.threw = FALSE], Len(s1.activityLog) - 1)
        IN
        /\ Commit(s)
        /\ lastEvent' = [op |-> "reloadGoToLast", busy |-> isAnimating,
                         threw |-> s1.threw \/ s.threw]
    /\ UNCHANGED <<envVars, calcIn, calcOut>>

\* click on the prev button
ClickPrev ==
    /\ Room /\ listening
    /\ LET s == goToPrev(Cur) IN
        /\ Commit(s)
        /\ Event("goToPrev", s)
    /\ UNCHANGED <<envVars, calcIn, calcOut>>

\* click on the next button
ClickNext ==
    /\ Room /\ listening
    /\ LET s == goToNext(Cur) IN
        /\ Commit(s)
        /\ Event("goToNext", s)
    /\ UNCHANGED <<envVars, calcIn, calcOut>>

\* click on a materialized position marker
ClickNode ==
    /\ Room /\ listening
    /\ \E k \in DOMAIN timelineNodes :
        LET s == goToIndex(Cur, timelineNodes[k].index) IN
        /\ Commit(s)
        /\ Event("goToIndex", s)
    /\ UNCHANGED <<envVars, calcIn, calcOut>>

\* keydown
KeyDown ==
    /\ Room /\ listening
    /\ \E key \in Keys :
        LET s1 == IF key = "ArrowLeft" THEN goToPrev(Cur) ELSE Cur
            s == IF key = "ArrowRight" THEN goToNext(s1) ELSE s1
        IN
        /\ Commit(s)
        /\ Event(IF key = "ArrowLeft" THEN "goToPrev"
                 ELSE IF key = "ArrowRight" THEN "goToNext" ELSE "none", s)
    /\ UNCHANGED <<envVars, calcIn, calcOut>>

\* touchstart at startX followed by touchend at endX
Swipe ==
    /\ Room /\ listening
    /\ \E startX \in TouchXs, endX \in TouchXs :
        LET diff == startX - endX
            s == IF Abs(diff) > SwipeThreshold
                 THEN (IF diff > 0 THEN goToNext(Cur) ELSE goToPrev(Cur))
                 ELSE Cur
        IN
        /\ Commit(s)
        /\ Event(IF Abs(diff) <= SwipeThreshold THEN "none"
                 ELSE IF diff > 0 THEN "goToNext" ELSE "goToPrev", s)
    /\ UNCHANGED <<envVars, calcIn, calcOut>>

\* wheel on the viewport
Wheel ==
    /\ Room /\ listening
    /\ \E deltaY \in WheelDeltas :
        LET s == IF deltaY > 0 THEN goToNext(Cur) ELSE goToPrev(Cur) IN
        /\ Commit(s)
        /\ Event(IF deltaY > 0 THEN "goToNext" ELSE "goToPrev", s)
    /\ UNCHANGED <<envVars, calcIn, calcOut>>

\* The oldest pending 750 ms timer fires.
TimerFire ==
    /\ timers # <<>>
    /\ LET s0 == [Cur EXCEPT !.timers = Tail(@)]
           s == IF Head(timers) = "A" THEN timerCallbackA(s0) ELSE timerCallbackB(s0)
       IN
        /\ Commit(s)
        /\ Event("timer", s)
    /\ UNCHANGED <<envVars, calcIn, calcOut>>

\* An animation frame runs the queued Case B callbacks.
RafFire ==
    /\ rafPending
    /\ LET s == rafCallback([Cur EXCEPT !.rafPending = FALSE]) IN
        /\ Commit(s)
        /\ Event("raf", s)
    /\ UNCHANGED <<envVars, calcIn, calcOut>>

\* The window is resized: the layout gives the cards another width, and the
\* debounced handler, if bound, is (re)armed.
Resize ==
    /\ \E w \in Widths \ {cardWidth} : cardWidth' = w
    /\ resizeTimer' = listening
    /\ lastEvent' = [op |-> "resize", busy |-> isAnimating, threw |-> FALSE]
    /\ UNCHANGED <<progVars, startup, calcIn, calcOut>>

\* The debounced resize handler runs, 100 ms after the last resize.
ResizeSnap ==
    /\ resizeTimer
    /\ resizeTimer' = FALSE
    /\ LET s == updateSliderPosition(Cur, FALSE) IN
        /\ Commit(s)
        /\ Event("resizeSnap", s)
    /\ UNCHANGED <<cardWidth, startup, calcIn, calcOut>>

Next ==
    \/ StartupResolve
    \/ GoToIndex
    \/ GoToFirst
    \/ GoToLast
    \/ AddEntryNew
    \/ Reload
    \/ ReloadThenGoToLast
    \/ ClickPrev
    \/ ClickNext
    \/ ClickNode
    \/ KeyDown
    \/ Swipe
    \/ Wheel
    \/ TimerFire
    \/ RafFire

Spec == Init /\ [][Next]_vars

\* The program with window resizes.  Navigation comes from the exported
\* goToIndex alone: every request of an input adapter is a goToIndex call with
\* an index this action also tries.
NextResize ==
    \/ StartupResolve
    \/ GoToIndex
    \/ AddEntryNew
    \/ Reload
    \/ TimerFire
    \/ RafFire
    \/ Resize
    \/ ResizeSnap

SpecResize == Init /\ [][NextResize]_vars

\* The operations that write the store, with addEntry of an object the store
\* already holds among them, and the timer that ends addEntry's transition.
NextStore ==
    \/ StartupResolve
    \/ AddEntryNew
    \/ AddEntryAlias
    \/ Reload
    \/ TimerFire

SpecStore == Init /\ [][NextStore]_vars

\* The same with addEntry of an object the store already holds.
SpecAlias == Init /\ [][Next \/ AddEntryAlias]_vars

\* ------------------------------------------- the window computation alone
CalcInputs ==
    {[index |-> i, buffer |-> b, entryCount |-> n] :
        i \in 0..(MaxEntries - 1), b \in 0..MaxBuffer, n \in 1..MaxEntries}

RangeInit ==
    /\ InitProg
    /\ calcIn \in {c \in CalcInputs : c.index <= c.entryCount - 1}
    /\ calcOut = <<>>

Calc ==
    /\ calcOut = <<>>
    /\ calcOut' = <<computeRange(calcIn.index, calcIn.buffer, calcIn.entryCount)>>
    /\ UNCHANGED <<progVars, envVars, lastEvent, calcIn>>

RangeSpec == RangeInit /\ [][Calc]_vars

\* ------------------------------------------------- one forced render alone
\* The type tags tried on the renderer: a registered one, one that is no
\* property of typeConfig, and one that typeConfig inherits.
RenderTypes == {"feature", "unknown", "constructor"}

\* The stores tried on the renderer, as loadActivityLog builds them.
RenderStores ==
    UNION {{[k \in 1..n |-> [ref |-> k, id |-> k, type |-> f[k]]] :
                f \in [1..n -> RenderTypes]} : n \in 1..MaxRenderEntries}

RenderInit ==
    /\ activityLog \in RenderStores
    /\ currentIndex \in 0..(MaxRenderEntries - 1)
    /\ currentIndex <= Len(activityLog) - 1
    /\ isAnimating = FALSE
    /\ renderedRange = [start |-> 0, end |-> 0]
    /\ timelineNodes = <<>>
    /\ cardsRow = <<>>
    /\ transform = 0
    /\ transition = ""
    /\ timers = <<>>
    /\ rafPending = FALSE
    /\ listening = FALSE
    /\ resizeTimer = FALSE
    /\ cardWidth = DefaultCardWidth
    /\ startup = "done"
    /\ lastEvent = [op |-> "script", busy |-> FALSE, threw |-> FALSE]
    /\ calcIn = [index |-> 0, buffer |-> CARD_BUFFER, entryCount |-> 1]
    /\ calcOut = <<>>

\* updateRenderedCards(true)
Render ==
    /\ lastEvent.op = "script"
    /\ LET s == updateRenderedCards(Cur, TRUE) IN
        /\ Commit(s)
        /\ Event("render", s)
    /\ UNCHANGED <<envVars, calcIn, calcOut>>

RenderSpec == RenderInit /\ [][Render]_vars

\* ================================================================== claims
\* The strips of s hold exactly the items with indices r.start..r.end, in order.
Materialized(s, r) ==
    /\ Len(s.cardsRow) = r.end - r.start + 1
    /\ Len(s.timelineNodes) = r.end - r.start + 1
    /\ \A k \in DOMAIN s.cardsRow : s.cardsRow[k].index = r.start + k - 1
    /\ \A k \in DOMAIN s.timelineNodes : s.timelineNodes[k].index = r.start + k - 1

RangeHolds(s, i) == s.renderedRange.start <= i /\ i <= s.renderedRange.end

\* The indices a caller may pass, two beyond either end of the largest store.
Indices == (0 - 2)..(MaxEntries + 1)

\* C1: a goToIndex request dispatched while a transition is in flight changes
\* nothing (currentIndex, isAnimating, the window, the strips, the slider, the
\* pending timers and frame callbacks all stay as they are), and the completion
\* timer of the transition in flight leaves currentIndex where the accepted
\* request put it.
C1_DroppedWhileAnimating ==
    [][ /\ (isAnimating /\ lastEvent'.op = "goToIndex") => UNCHANGED progVars
        /\ (lastEvent'.op = "timer") => currentIndex' = currentIndex ]_vars

\* A request for another index has just been dropped mid-transition.
C1_Witness ==
    /\ lastEvent.op = "goToIndex" /\ lastEvent.busy
    /\ isAnimating /\ timers # <<>>
    /\ Len(activityLog) >= 2

\* C2 (as claimed): a transition in flight always has its completion timer
\* pending, so that the controller returns to Idle when the timer fires.
C2_TransitionAlwaysSettles == isAnimating => timers # <<>>

C4_RangeHoldsCurrent ==
    (Len(activityLog) >= 1 /\ cardsRow # <<>>) =>
        /\ RangeHolds(Cur, currentIndex)
        /\ renderedRange.end - renderedRange.start <= 2 * CARD_BUFFER

\* C5 (as claimed): with n >= 1 entries in the store, 0 <= currentIndex <= n - 1.
C5_IndexInStore ==
    Len(activityLog) >= 1 =>
        (0 <= currentIndex /\ currentIndex <= Len(activityLog) - 1)

\* C6: for every entryCount >= 1, index in [0, entryCount - 1] and buffer >= 0,
\* the computed window satisfies start <= index <= end, start >= 0,
\* end <= entryCount - 1 and end - start <= 2 * buffer.
C6_WindowBounds ==
    calcOut # <<>> =>
        LET r == calcOut[1] IN
        /\ r.start <= calcIn.index /\ calcIn.index <= r.end
        /\ r.start >= 0
        /\ r.end <= calcIn.entryCount - 1
        /\ r.end - r.start <= 2 * calcIn.buffer

\* A window clamped at both ends has been computed.
C6_Witness ==
    /\ calcOut # <<>>
    /\ calcIn.index - calcIn.buffer < 0
    /\ calcIn.index + calcIn.buffer > calcIn.entryCount - 1
    /\ calcOut[1] = [start |-> 0, end |-> calcIn.entryCount - 1]

\* C7: a goToPrev dispatched at currentIndex = 0 and a goToNext dispatched at
\* currentIndex = entryCount - 1 change nothing and start no timer, whichever
\* input adapter (button, key, swipe, wheel) dispatched them.
C7_BoundaryNoOp ==
    [][ /\ (lastEvent'.op = "goToPrev" /\ currentIndex = 0)
            => (UNCHANGED progVars /\ ~lastEvent'.threw)
        /\ (lastEvent'.op = "goToNext" /\ currentIndex = Len(activityLog) - 1)
            => (UNCHANGED progVars /\ ~lastEvent'.threw) ]_vars

\* goToPrev has just been dispatched in Idle at index 0 of a store of several
\* entries.
C7_Witness ==
    /\ lastEvent.op = "goToPrev" /\ ~lastEvent.busy
    /\ listening
    /\ currentIndex = 0 /\ ~isAnimating
    /\ Len(activityLog) >= 2

\* C8: goToIndex(i) with i < 0 or i >= entryCount in any controller state, or
\* with any i while isAnimating, returns the state it was given: currentIndex,
\* renderedRange, isAnimating, both strips with their flags, the slider offset
\* and transition, the pending timers and callbacks are the same, and nothing
\* is raised.
C8_IgnoredRequestNoEffect ==
    \A i \in Indices :
        (isAnimating \/ i < 0 \/ i >= Len(activityLog)) => goToIndex(Cur, i) = Cur

\* In Idle with strips materialized, a goToIndex request has just been
\* dispatched and no transition started: its index was out of range.
C8_Witness ==
    /\ lastEvent.op = "goToIndex" /\ ~lastEvent.busy /\ ~lastEvent.threw
    /\ ~isAnimating /\ timers = <<>>
    /\ Len(activityLog) >= 1 /\ cardsRow # <<>>

\* C9 (as claimed): when addEntry is followed by the completion timer and the
\* controller is Idle after it, currentIndex is the index of the added entry,
\* the last of the store.
C9_AddEntryNavigates ==
    [][ (lastEvent.op = "addEntry" /\ lastEvent'.op = "timer" /\ ~isAnimating')
            => currentIndex' = Len(activityLog') - 1 ]_vars

\* C10: when reload() has resolved with n >= 1 entries and goToLast() is called,
\* currentIndex = n - 1 and renderedRange holds n - 1, whether goToLast() runs in
\* the continuation of reload() or as the next event, and whether or not a
\* transition is in flight.
C10_ReloadThenLast ==
    /\ (lastEvent.op = "reloadGoToLast" /\ Len(activityLog) >= 1) =>
            /\ currentIndex = Len(activityLog) - 1
            /\ RangeHolds(Cur, Len(activityLog) - 1)
    /\ (lastEvent.op = "reload" /\ Len(activityLog) >= 1) =>
            LET s == goToIndex(Cur, Len(activityLog) - 1)
            IN  /\ s.currentIndex = Len(activityLog) - 1
                /\ RangeHolds(s, Len(activityLog) - 1)

\* reload() then goToLast() have run while an earlier transition was in flight.
C10_Witness ==
    /\ lastEvent.op = "reloadGoToLast" /\ lastEvent.busy
    /\ isAnimating /\ timers # <<>>
    /\ Len(activityLog) >= 1

\* Every navigation request on s returns s.
NavigationIsNoOp(s) ==
    /\ \A i \in Indices : goToIndex(s, i) = s
    /\ goToPrev(s) = s
    /\ goToNext(s) = s

\* C11 (as claimed): when the load fails, at startup and in reload() alike, the
\* store is empty afterwards, the operation raises nothing, and goToIndex (so
\* goToFirst and goToLast), goToPrev and goToNext change nothing.
C11_LoadFailureIsSoft ==
    \A resp \in Responses : ~resp.ok =>
        /\ startup = "loading" =>
                LET s == domContentLoaded(Cur, resp)
                IN  s.activityLog = <<>> /\ ~s.threw /\ NavigationIsNoOp(s)
        /\ startup = "done" =>
                LET s == reload(Cur, resp)
                IN  /\ s.activityLog = <<>>
                    /\ ~s.threw
                    /\ NavigationIsNoOp([s EXCEPT !.threw = FALSE])

\* The labels of the type registry.
RegisteredLabels == {typeConfig[t].label : t \in DOMAIN typeConfig}

\* C12 (as claimed): a render of a window that holds an entry whose type is no
\* key of typeConfig raises, every materialized marker and card carries a
\* registered label, and that label is the one registered for its entry's type.
C12_UnknownTypeRaises ==
    lastEvent.op = "render" =>
        /\ (\E i \in renderedRange.start..renderedRange.end :
                activityLog[i + 1].type \notin DOMAIN typeConfig)
            => lastEvent.threw
        /\ \A k \in DOMAIN cardsRow :
                /\ cardsRow[k].label \in RegisteredLabels
                /\ timelineNodes[k].label \in RegisteredLabels
                /\ activityLog[cardsRow[k].index + 1].type = "feature"
                        => cardsRow[k].label = "Feature"

\* C13 (as claimed): after startup with a non-empty store, each strip has exactly
\* one item flagged active and its index is currentIndex; a card is flagged prev
\* exactly when its index is currentIndex - 1 and next exactly when its index is
\* currentIndex + 1.
C13_OneActivePerStrip ==
    (startup = "done" /\ Len(activityLog) >= 1) =>
        /\ Cardinality({k \in DOMAIN cardsRow : cardsRow[k].active}) = 1
        /\ Cardinality({k \in DOMAIN timelineNodes : timelineNodes[k].active}) = 1
        /\ \A k \in DOMAIN cardsRow :
                /\ cardsRow[k].active <=> cardsRow[k].index = currentIndex
                /\ cardsRow[k].prev <=> cardsRow[k].index = currentIndex - 1
                /\ cardsRow[k].next <=> cardsRow[k].index = currentIndex + 1
        /\ \A k \in DOMAIN timelineNodes :
                timelineNodes[k].active <=> timelineNodes[k].index = currentIndex

\* C14 (as claimed): when the startup load has resolved with n >= 1 entries the
\* controller is Idle, currentIndex is n - 1 and renderedRange is
\* computeRange(n - 1, CARD_BUFFER, n); with n = 5 the range is [1,4].
C14_StartupAtNewest ==
    (lastEvent.op = "startup" /\ Len(activityLog) >= 1) =>
        /\ ~isAnimating
        /\ currentIndex = Len(activityLog) - 1
        /\ renderedRange =
                computeRange(Len(activityLog) - 1, CARD_BUFFER, Len(activityLog))
        /\ Len(activityLog) = 5 => renderedRange = [start |-> 1, end |-> 4]

\* The indices of the items of a strip, in order.
StripIndices(strip) == [k \in DOMAIN strip |-> strip[k].index]

\* The labels of the items of a strip, in order.
StripLabels(strip) == [k \in DOMAIN strip |-> strip[k].label]

\* The flags of the strips of s are those of current index c.
FlagsMatch(s, c) ==
    /\ \A k \in DOMAIN s.cardsRow :
            /\ s.cardsRow[k].active = (s.cardsRow[k].index = c)
            /\ s.cardsRow[k].prev = (s.cardsRow[k].index = c - 1)
            /\ s.cardsRow[k].next = (s.cardsRow[k].index = c + 1)
    /\ \A k \in DOMAIN s.timelineNodes :
            s.timelineNodes[k].active = (s.timelineNodes[k].index = c)

C16_OneTransitionInFlight ==
    /\ Len(timers) <= 1
    /\ timers # <<>> => isAnimating

\* addEntry has just been called while a transition was in flight: the entry
\* is in the store and the one timer of the earlier transition is pending.
C16_Witness ==
    /\ lastEvent.op = "addEntry" /\ lastEvent.busy
    /\ isAnimating /\ Len(timers) = 1
    /\ Len(activityLog) >= 2

\* C17 (as claimed): the entry at array position i (zero-based) carries the id
\* i + 1, so the ids of the store are pairwise distinct.
C17_IdsFollowPosition ==
    \A k \in DOMAIN activityLog : activityLog[k].id = k

\* No callback is pending: no completion timer, no animation frame, no
\* debounced resize.
Quiescent == timers = <<>> /\ ~rafPending /\ ~resizeTimer

SameItems(s) ==
    /\ StripIndices(s.cardsRow) = StripIndices(cardsRow)
    /\ StripLabels(s.cardsRow) = StripLabels(cardsRow)
    /\ StripIndices(s.timelineNodes) = StripIndices(timelineNodes)
    /\ StripLabels(s.timelineNodes) = StripLabels(timelineNodes)

\* The call and the timer of Case A, from every Idle state and for every t the
\* rendered range holds.
C19_CallThenTimer ==
    \A t \in 0..(Len(activityLog) - 1) :
        (~isAnimating /\ RangeHolds(Cur, t)) =>
            LET r == computeRange(t, CARD_BUFFER, Len(activityLog))
                s == goToIndex(Cur, t)
                done == timerCallbackA([s EXCEPT !.timers = Tail(@)])
            IN  /\ s.currentIndex = t
                /\ s.isAnimating
                /\ FlagsMatch(s, t)
                /\ SameItems(s)
                /\ s.renderedRange = renderedRange
                /\ ~s.threw =>
                    /\ s.timers = Append(timers, "A")
                    /\ done.currentIndex = t
                    /\ done.renderedRange = r
                    /\ ~done.threw =>
                        /\ ~done.isAnimating
                        /\ FlagsMatch(done, t)
                        /\ IF r # renderedRange
                           THEN /\ Materialized(done, r)
                                /\ done.transform = (t - r.start) * (cardWidth + gap)
                                /\ done.transition = ""
                           ELSE /\ SameItems(done)
                                /\ done.transform = s.transform

\* C19: in Idle, goToIndex(t) with t inside the rendered range sets currentIndex
\* to t and the flags to those of t inside the call and leaves the items of both
\* strips and renderedRange as they are; while that transition is in flight no
\* step but its timer (and a load resolving, at startup or in reload()) touches
\* the items, the range, currentIndex or isAnimating; the timer callback
\* recomputes the range and,
\* exactly when it differs from renderedRange, materializes it and snaps the
\* slider to the target's position; then it clears isAnimating.
C19_CaseADefersRender ==
    /\ []C19_CallThenTimer
    /\ [][ (/\ isAnimating /\ timers = <<"A">>
            /\ lastEvent'.op \notin {"timer", "startup", "reload", "reloadGoToLast"})
           => /\ StripIndices(cardsRow') = StripIndices(cardsRow)
              /\ StripLabels(cardsRow') = StripLabels(cardsRow)
              /\ StripIndices(timelineNodes') = StripIndices(timelineNodes)
              /\ renderedRange' = renderedRange
              /\ currentIndex' = currentIndex
              /\ isAnimating' ]_vars

\* C19 (as claimed): while a Case A transition is in flight after startup, no
\* step but its completion timer touches the items of the strips or the
\* rendered range.
C19_WindowUntouchedUntilTimer ==
    [][ (/\ startup = "done" /\ isAnimating /\ timers = <<"A">>
         /\ lastEvent'.op # "timer")
           => /\ StripIndices(cardsRow') = StripIndices(cardsRow)
              /\ StripIndices(timelineNodes') = StripIndices(timelineNodes)
              /\ renderedRange' = renderedRange ]_vars

\* A Case A request has just been accepted: 5 entries with window [1,4] from
\* index 4, target 3.  The flags are those of 3, the window is still [1,4]
\* although the one computed for 3 is [0,4], and the timer is pending.
C19_Witness ==
    /\ lastEvent.op = "goToIndex" /\ ~lastEvent.busy /\ ~lastEvent.threw
    /\ isAnimating /\ timers = <<"A">>
    /\ Len(activityLog) = 5 /\ currentIndex = 3
    /\ renderedRange = [start |-> 1, end |-> 4]
    /\ Materialized(Cur, renderedRange)
    /\ FlagsMatch(Cur, 3)

\* The loop of updateRenderedCards over start..end for the current index of s:
\* the markers and the cards it builds.
renderWindow(s, start, end) ==
    [nodes |-> [k \in 1..(end - start + 1) |->
                    LET i == start + k - 1 IN
                    createNodeHTML(s.activityLog[i + 1], i, i = s.currentIndex)],
     cards |-> [k \in 1..(end - start + 1) |->
                    LET i == start + k - 1 IN
                    createCardHTML(s.activityLog[i + 1], i,
                                   i = s.currentIndex,
                                   i = s.currentIndex - 1,
                                   i = s.currentIndex + 1)]]

\* The flags of the cards of a strip, in order.
CardFlags(strip) ==
    [k \in DOMAIN strip |->
        <<strip[k].active, strip[k].prev, strip[k].next>>]

\* The flags of the markers of a strip, in order.
NodeFlags(strip) == [k \in DOMAIN strip |-> strip[k].active]

\* The strips hold the window renderedRange of the store and every entry of it
\* can be rendered.
WindowRenderable ==
    /\ Materialized(Cur, renderedRange)
    /\ renderedRange.start >= 0
    /\ renderedRange.end <= Len(activityLog) - 1
    /\ \A i \in renderedRange.start..renderedRange.end :
            Renderable(activityLog[i + 1])

\* C20: for every materialized window of a reachable state and every value c of
\* currentIndex (two beyond either end of the store included),
\* updateCardActiveStates leaves every card with the active, prev and next flags
\* and every marker with the active flag that the render loop of
\* updateRenderedCards gives the same window for the same c.
C20_RefreshEqualsRender ==
    WindowRenderable =>
        \A c \in Indices :
            LET s0 == [Cur EXCEPT !.currentIndex = c]
                refreshed == updateCardActiveStates(s0)
                rendered == renderWindow(s0, renderedRange.start, renderedRange.end)
            IN  /\ CardFlags(refreshed.cardsRow) = CardFlags(rendered.cards)
                /\ NodeFlags(refreshed.timelineNodes) = NodeFlags(rendered.nodes)

\* updateCardActiveStates has just run in a Case A call on a window of at least
\* three cards: the card before the target is flagged prev, the one after it
\* next, and the flags are those a render of the window gives.
C20_Witness ==
    /\ lastEvent.op = "goToPrev" /\ ~lastEvent.busy /\ ~lastEvent.threw
    /\ isAnimating /\ timers = <<"A">>
    /\ WindowRenderable
    /\ \E k \in DOMAIN cardsRow : cardsRow[k].prev
    /\ \E k \in DOMAIN cardsRow : cardsRow[k].next
    /\ CardFlags(cardsRow) =
            CardFlags(renderWindow(Cur, renderedRange.start, renderedRange.end).cards)

\* C21 (as claimed): whenever the controller is Idle after startup with a
\* non-empty store, renderedRange is the window computed for currentIndex and
\* the current entry count.
C21_IdleRangeIsComputed ==
    (startup = "done" /\ ~isAnimating /\ Len(activityLog) >= 1) =>
        renderedRange = computeRange(currentIndex, CARD_BUFFER, Len(activityLog))

\* C22 (as claimed): while a transition is in flight after startup, no step but
\* the firing of its completion timer changes currentIndex (looked at on the
\* steps that leave the store non-empty).
C22_IndexFixedInFlight ==
    [][ (/\ startup = "done" /\ isAnimating /\ timers # <<>>
         /\ lastEvent'.op # "timer" /\ activityLog' # <<>>)
           => currentIndex' = currentIndex ]_vars

====
